---- MODULE Spec2Model ----
(***************************************************************************)
(* A model of the ts-jsonbinding combinator library (src/src/jsonbinding.ts)*)
(*                                                                         *)
(* Javascript values (Json values and the in-memory values the bindings    *)
(* produce) are tagged records.  A binding is a record naming the          *)
(* combinator that built it and its captured arguments; toJson / fromJson  *)
(* interpret that record exactly as the closures of the combinator do.     *)
(* A call returns an outcome (a returned value or a thrown exception)      *)
(* together with the store of the lazy bindings' caches, which is the only *)
(* state a call can change.                                                *)
(***************************************************************************)
EXTENDS Integers, Sequences, FiniteSets, TLC

\* ------------------------------------------------------------------------
\* Bounds of the model
\* ------------------------------------------------------------------------

\* longest Json array drawn as an input
MaxLen == 2
\* deepest nesting of a recursive (Category) document drawn as an input
MaxNest == 2

\* ------------------------------------------------------------------------
\* Javascript values
\* ------------------------------------------------------------------------

Str(s) == [t |-> "string", s |-> s]
Num(n) == [t |-> "number", n |-> n]
Bool(b) == [t |-> "boolean", b |-> b]
Null == [t |-> "null"]
Undefined == [t |-> "undefined"]
\* an array: its elements in index order (index 0 is element 1 of the sequence)
Arr(a) == [t |-> "array", a |-> a]
\* an object: its own properties as <<key, value>> in property order
Obj(o) == [t |-> "object", o |-> o]
DateV(n) == [t |-> "Date", time |-> n]
BigIntV(n) == [t |-> "bigint", i |-> n]
\* a Map: its entries <<key, value>> in iteration order
MapV(entries) == [t |-> "Map", entries |-> entries]
\* a Set: its values in iteration order
SetV(values) == [t |-> "Set", values |-> values]

\* Object.keys(o)
Keys(o) == [i \in 1..Len(o.o) |-> o.o[i][1]]

\* "key in o" for own properties
HasKey(o, key) == \E i \in 1..Len(o.o) : o.o[i][1] = key

\* o[key]: undefined when the object has no such property
Get(o, key) ==
  IF HasKey(o, key)
  THEN o.o[CHOOSE i \in 1..Len(o.o) : o.o[i][1] = key][2]
  ELSE Undefined

\* o[key] = v: replaces the value in place, or appends a new property
Put(o, key, v) ==
  IF HasKey(o, key)
  THEN Obj([i \in 1..Len(o.o) |-> IF o.o[i][1] = key THEN <<key, v>> ELSE o.o[i]])
  ELSE Obj(Append(o.o, <<key, v>>))

\* o[key] = v for a key that comes from data.  On an object made by {} the
\* key "__proto__" is the accessor inherited from Object.prototype: the
\* assignment runs its setter, which makes no own property (and replaces
\* the prototype when v is an object or null; the prototype is not part of
\* the values of this model)
Assign(o, key, v) ==
  IF key = "__proto__" THEN o ELSE Put(o, key, v)

\* ------------------------------------------------------------------------
\* Outcomes of a call: a returned value or a thrown exception
\* ------------------------------------------------------------------------

Return(v) == [ok |-> TRUE, v |-> v]

\* new JsonParseException(text): the context starts empty
JsonParseException(text) ==
  [ok |-> FALSE, exc |-> "JsonParseException", text |-> text, context |-> <<>>]

\* new Error(text), or any other exception that is not a JsonParseException
Error(text) == [ok |-> FALSE, exc |-> "Error", text |-> text]

isJsonParseException(e) == (~e.ok) /\ e.exc = "JsonParseException"

\* pushField adding the segment at the front of the context
pushField_Prepend(e, fieldName) == [e EXCEPT !.context = <<fieldName>> \o @]

pushField(e, fieldName) == [e EXCEPT !.context = Append(@, fieldName)]

pushIndex(e, index) ==
  [e EXCEPT !.context = Append(@, "[" \o ToString(index) \o "]")]

\* Array.prototype.reverse
Reverse(s) == [i \in 1..Len(s) |-> s[Len(s) + 1 - i]]

\* Array.prototype.join
RECURSIVE Join(_, _)
Join(s, sep) ==
  IF Len(s) = 0 THEN ""
  ELSE IF Len(s) = 1 THEN s[1]
  ELSE s[1] \o sep \o Join(Tail(s), sep)

\* createContextString without the reverse
createContextString_NoReverse(e) == Join(Append(e.context, "$"), ".")

createContextString(e) == Join(Reverse(Append(e.context, "$")), ".")

message(e) == e.text \o " at " \o createContextString(e)

\* the catch blocks of the structural combinators:
\*   if (isJsonParseException(e)) { e.pushField(k) }; throw e
\* the catch block throwing a JsonParseException for whatever it caught
CatchPushField_Converts(e, k) ==
  IF isJsonParseException(e) THEN pushField(e, k)
  ELSE pushField(JsonParseException(e.text), k)

\* the catch block rethrowing without pushField
CatchPushField_NoPush(e, k) == e

CatchPushField(e, k) == IF isJsonParseException(e) THEN pushField(e, k) ELSE e

\* the catch block pushing the index counted from 1
CatchPushIndex_FromOne(e, i) ==
  IF isJsonParseException(e) THEN pushIndex(e, i + 1) ELSE e

CatchPushIndex(e, i) == IF isJsonParseException(e) THEN pushIndex(e, i) ELSE e

\* mapJsonException(exception), for an exception that was thrown
mapJsonException(e) == IF isJsonParseException(e) THEN Error(message(e)) ELSE e

asJsonObject(jv) == IF jv.t = "object" THEN jv ELSE Undefined

asJsonArray(jv) == IF jv.t = "array" THEN jv ELSE Undefined

\* ------------------------------------------------------------------------
\* Bindings
\* ------------------------------------------------------------------------

identityJsonBinding(expected, predicate) ==
  [b |-> "identity", expected |-> expected, predicate |-> predicate]

string == identityJsonBinding("a string", "string")
number == identityJsonBinding("a number", "number")
boolean == identityJsonBinding("a boolean", "boolean")
nullv == identityJsonBinding("a null", "null")
json == identityJsonBinding("a json value", "any")

array(jbt) == [b |-> "array", jbt |-> jbt]

stringMap(jbt) == [b |-> "stringMap", jbt |-> jbt]

\* { ...jb, defaultv: () => defv }
withDefault(jb, defv) == jb @@ [defaultv |-> [k |-> "const", defv |-> defv]]

\* { ...jb, defaultv }: fn names the function given as defaultv
withDefaultFn(jb, fn) == jb @@ [defaultv |-> [k |-> "fn", fn |-> fn]]

\* jbfields: the declared fields <<key, binding>> in declaration order
object(jbfields) == [b |-> "object", jbfields |-> jbfields]

orNull(jbt) == [b |-> "orNull", jbt |-> jbt]

orUndefined(jbt) == [b |-> "orUndefined", jbt |-> jbt]

mapped(jbb, fnAB, fnBA) == [b |-> "mapped", jbb |-> jbb, fnAB |-> fnAB, fnBA |-> fnBA]

date == mapped(number, "getTime", "newDate")

bigint == mapped(string, "toString", "BigInt")

\* lazy(fn): id names the instance, whose cache is jb[id] and whose
\* constructor function is Ctor(id)
lazy(id) == [b |-> "lazy", id |-> id]

pair(jba, jbb) == [b |-> "pair", jba |-> jba, jbb |-> jbb]

map(jbk, jbv) == mapped(array(pair(jbk, jbv)), "entries", "newMap")

set(jbt) == mapped(array(jbt), "values", "newSet")

\* ubs: the branches [kind, value] in declaration order
union(ubs) == [b |-> "union", ubs |-> ubs]

\* ------------------------------------------------------------------------
\* The bindings of the test suite and of the README
\* ------------------------------------------------------------------------

JB_USER ==
  object(<< <<"name", string>>, <<"birthday", date>>,
            <<"phoneNumber", orUndefined(string)>> >>)

JB_JOB == object(<< <<"title", string>>, <<"level", withDefault(number, Num(1))>> >>)

JB_USER_OR_JOB ==
  union(<< [kind |-> "user", value |-> JB_USER], [kind |-> "job", value |-> JB_JOB] >>)

\* the binding of the overview: object({name: string(), birthday: date()})
JB_PERSON == object(<< <<"name", string>>, <<"birthday", date>> >>)

\* array(object({name: string()}))
JB_NAMED_ARRAY == array(object(<< <<"name", string>> >>))

JB_USER_SMAP == stringMap(object(<< <<"name", string>> >>))

\* JB_JOB with the default given as a function:
\* object({title: string(), level: withDefaultFn(number(), () => 1)})
\* a Job whose level has a default and a binding that accepts null
JB_JOB_NULLABLE ==
  object(<< <<"title", string>>, <<"level", withDefault(orNull(number), Num(1))>> >>)

JB_JOB_FN == object(<< <<"title", string>>, <<"level", withDefaultFn(number, 0)>> >>)

\* the binding of the README with a default:
\* object({name: string(), roles: withDefault(array(string()), [])})
JB_USER_ROLES ==
  object(<< <<"name", string>>, <<"roles", withDefault(array(string), Arr(<<>>))>> >>)

JB_NUMBER_SMAP == stringMap(number)

JB_BIGINT_ARRAY == array(bigint)

\* a mapped binding whose fnBA throws an Error, which is no
\* JsonParseException, on the string "a":
\* mapped(string(), s => s, s => { if (s === "a") throw new Error("fault"); return s })
JB_CHECKED == mapped(string, "same", "check")

\* JB_CHECKED below each of the structural combinators
JB_CHECKED_ARRAY == array(JB_CHECKED)

JB_CHECKED_SMAP == stringMap(JB_CHECKED)

JB_CHECKED_OBJECT == object(<< <<"f", JB_CHECKED>>, <<"g", number>> >>)

JB_CHECKED_PAIR == pair(JB_CHECKED, JB_CHECKED)

JB_CHECKED_UNION == union(<< [kind |-> "c", value |-> JB_CHECKED] >>)

\* a union whose branch list has the kind 't' twice
JB_REPEATED_KIND ==
  union(<< [kind |-> "t", value |-> date], [kind |-> "t", value |-> string] >>)

JB_PAIR == pair(string, date)

JB_MAP == map(string, date)

JB_SET == set(number)

\* jbCategory(): every invocation builds a new object binding around a new
\* lazy instance.  The n-th invocation builds the instance n; the instance 0
\* belongs to the invocation made by the test itself.
jbCategory(n) ==
  object(<< <<"name", string>>, <<"subcategories", array(lazy(n))>> >>)

\* the instances of lazy: one per invocation of jbCategory that a document
\* of the bounded nesting can cause
LazyIds == 0..(MaxNest - 1)

\* the constructor function of a lazy instance: () => jbCategory()
Ctor(id) == jbCategory(id + 1)

\* the functions given to withDefaultFn
DefaultFns == {0}

\* what a function given to withDefaultFn returns: () => 1
DefaultFn(fn) == Num(1)

\* ------------------------------------------------------------------------
\* The store: the cache variable jb of every lazy instance, the number of
\* times its constructor function has been invoked and, for the call of
\* toJson or fromJson that is running, the number of times each function
\* given to withDefaultFn, the functions () => defv made by withDefault, and
\* each function fnBA given to mapped have been invoked
\* ------------------------------------------------------------------------

\* the functions fnBA given to mapped
ConversionFns == {"newDate", "BigInt", "newMap", "newSet", "check"}

NoConversions == [fn \in ConversionFns |-> 0]

InitStore ==
  [jb |-> [id \in LazyIds |-> Undefined],
   calls |-> [id \in LazyIds |-> 0],
   dcalls |-> [fn \in DefaultFns |-> 0],
   vcalls |-> 0,
   fcalls |-> NoConversions]

\* jbfield.defaultv() invoking the supplier a second time for the value
defaultv_Twice(d, st) ==
  IF d.k = "const"
  THEN [v |-> d.defv, st |-> [st EXCEPT !.vcalls = @ + 2]]
  ELSE [v |-> DefaultFn(d.fn), st |-> [st EXCEPT !.dcalls[d.fn] = @ + 2]]

\* jbfield.defaultv()
defaultv(d, st) ==
  IF d.k = "const"
  THEN [v |-> d.defv, st |-> [st EXCEPT !.vcalls = @ + 1]]
  ELSE [v |-> DefaultFn(d.fn), st |-> [st EXCEPT !.dcalls[d.fn] = @ + 1]]

\* getJb() invoking the constructor function on every call
getJb_NoCache(id, st) ==
  [jb |-> Ctor(id), st |-> [st EXCEPT !.calls[id] = @ + 1]]

\* getJb() returning, once the cache is filled, another binding than the
\* one it cached
getJb_Stale(id, st) ==
  IF st.jb[id] = Undefined
  THEN [jb |-> Ctor(id),
        st |-> [st EXCEPT !.jb[id] = Ctor(id), !.calls[id] = @ + 1]]
  ELSE [jb |-> string, st |-> st]

\* getJb(): a call returns the delegate and the store after the call
getJb(id, st) ==
  IF st.jb[id] = Undefined
  THEN [jb |-> Ctor(id),
        st |-> [st EXCEPT !.jb[id] = Ctor(id), !.calls[id] = @ + 1]]
  ELSE [jb |-> st.jb[id], st |-> st]

\* ------------------------------------------------------------------------
\* The conversion functions given to mapped()
\* ------------------------------------------------------------------------

\* SameValueZero on the values of the model: primitives compare by value,
\* objects by identity, and two decoded objects are never the same object
IsPrimitive(v) == v.t \in {"string", "number", "boolean", "null", "undefined", "bigint"}

\* Map.prototype.set leaving the value of an existing key as it is
MapSet_KeepFirst(entries, k, v) ==
  IF IsPrimitive(k) /\ \E i \in 1..Len(entries) : entries[i][1] = k
  THEN entries
  ELSE Append(entries, <<k, v>>)

\* Map.prototype.set: an existing key keeps its position and takes the value
MapSet(entries, k, v) ==
  IF IsPrimitive(k) /\ \E i \in 1..Len(entries) : entries[i][1] = k
  THEN [i \in 1..Len(entries) |-> IF entries[i][1] = k THEN <<k, v>> ELSE entries[i]]
  ELSE Append(entries, <<k, v>>)

\* Set.prototype.add
SetAdd(values, v) ==
  IF IsPrimitive(v) /\ \E i \in 1..Len(values) : values[i] = v
  THEN values
  ELSE Append(values, v)

RECURSIVE newMap(_, _, _)
newMap(entries, i, result) ==
  IF i > Len(entries) THEN MapV(result)
  ELSE newMap(entries, i + 1, MapSet(result, entries[i].a[1], entries[i].a[2]))

RECURSIVE newSet(_, _, _)
newSet(values, i, result) ==
  IF i > Len(values) THEN SetV(result)
  ELSE newSet(values, i + 1, SetAdd(result, values[i]))

\* the integers whose literals the model can read
MaxBigInt == 50

\* the digits of the hexadecimal literals
HexDigits ==
  << "0", "1", "2", "3", "4", "5", "6", "7",
     "8", "9", "a", "b", "c", "d", "e", "f" >>

\* the hexadecimal digits of the natural number n
RECURSIVE Hex(_)
Hex(n) ==
  IF n < 16 THEN HexDigits[n + 1]
  ELSE Hex(n \div 16) \o HexDigits[(n % 16) + 1]

\* the strings BigInt(s) accepts, with the value each denotes (StringToBigInt):
\* the empty string and white space alone (0n), an optionally signed run of
\* decimal digits, an unsigned hexadecimal literal, and any of these between
\* white space
BigIntLiterals ==
  LET bare ==
        {[s |-> "", i |-> 0]}
          \cup {[s |-> ToString(n), i |-> n] : n \in 0..MaxBigInt}
          \cup {[s |-> "-" \o ToString(n), i |-> 0 - n] : n \in 0..MaxBigInt}
          \cup {[s |-> "+" \o ToString(n), i |-> n] : n \in 0..MaxBigInt}
          \cup {[s |-> "0x" \o Hex(n), i |-> n] : n \in 0..MaxBigInt}
  IN bare \cup {[s |-> " " \o l.s \o " ", i |-> l.i] : l \in bare}

\* fnAB: the function from the value to the value of the inner binding
fnAB(fn, a) ==
  CASE fn = "getTime" -> Num(a.time)
    [] fn = "toString" -> Str(ToString(a.i))
    [] fn = "entries" -> Arr([i \in 1..Len(a.entries) |-> Arr(a.entries[i])])
    [] fn = "values" -> Arr(a.values)
    [] fn = "same" -> a

\* fnBA: the function back; it may throw
fnBA(fn, b) ==
  CASE fn = "newDate" -> Return(DateV(b.n))
    [] fn = "BigInt" ->
         IF \E l \in BigIntLiterals : l.s = b.s
         THEN Return(BigIntV((CHOOSE l \in BigIntLiterals : l.s = b.s).i))
         ELSE JsonParseException("expected a string containing a bigint")
    [] fn = "newMap" -> Return(newMap(b.a, 1, <<>>))
    [] fn = "newSet" -> Return(newSet(b.a, 1, <<>>))
    [] fn = "check" -> IF b = Str("a") THEN Error("fault") ELSE Return(b)

\* ------------------------------------------------------------------------
\* fromJson and toJson
\* ------------------------------------------------------------------------

\* what a call leaves: its outcome and the store
Res(r, st) == [r |-> r, st |-> st]

predicate(p, jv) ==
  CASE p = "string" -> jv.t = "string"
    [] p = "number" -> jv.t = "number"
    [] p = "boolean" -> jv.t = "boolean"
    [] p = "null" -> jv.t = "null"
    [] p = "any" -> TRUE

identity_toJson(jb, v) == Return(v)

\* fromJson of identityJsonBinding naming the predicate, not the expected
\* kind with its article, in the cause
identity_fromJson_NoArticle(jb, jv) ==
  IF ~predicate(jb.predicate, jv)
  THEN JsonParseException("expected " \o jb.predicate)
  ELSE Return(jv)

identity_fromJson(jb, jv) ==
  IF ~predicate(jb.predicate, jv)
  THEN JsonParseException("expected " \o jb.expected)
  ELSE Return(jv)

RECURSIVE fromJson(_, _, _)
RECURSIVE toJson(_, _, _)

\* jarr.forEach((eljson, i) => ...) of array.fromJson, from index i - 1 on
RECURSIVE array_forEach(_, _, _, _, _)
array_forEach(jbt, jarr, i, result, st) ==
  IF i > Len(jarr) THEN Res(Return(Arr(result)), st)
  ELSE LET c == fromJson(jbt, jarr[i], st) IN
       IF c.r.ok
       THEN array_forEach(jbt, jarr, i + 1, Append(result, c.r.v), c.st)
       ELSE Res(CatchPushIndex(c.r, i - 1), c.st)

array_fromJson(jb, jv, st) ==
  LET jarr == asJsonArray(jv) IN
  IF jarr = Undefined
  THEN Res(JsonParseException("expected an array"), st)
  ELSE array_forEach(jb.jbt, jarr.a, 1, <<>>, st)

\* v.map(jbt.toJson), from index i - 1 on
RECURSIVE array_map(_, _, _, _, _)
array_map(jbt, v, i, result, st) ==
  IF i > Len(v) THEN Res(Return(Arr(result)), st)
  ELSE LET c == toJson(jbt, v[i], st) IN
       IF c.r.ok
       THEN array_map(jbt, v, i + 1, Append(result, c.r.v), c.st)
       ELSE c

array_toJson(jb, v, st) == array_map(jb.jbt, v.a, 1, <<>>, st)

\* for (let k in jobj) of stringMap.fromJson, from the i-th property on
RECURSIVE stringMap_forIn(_, _, _, _, _)
stringMap_forIn(jbt, jobj, i, result, st) ==
  IF i > Len(jobj.o) THEN Res(Return(result), st)
  ELSE LET k == jobj.o[i][1]
           c == fromJson(jbt, jobj.o[i][2], st) IN
       IF c.r.ok
       THEN stringMap_forIn(jbt, jobj, i + 1, Assign(result, k, c.r.v), c.st)
       ELSE Res(CatchPushField(c.r, k), c.st)

stringMap_fromJson(jb, jv, st) ==
  LET jobj == asJsonObject(jv) IN
  IF jobj = Undefined
  THEN Res(JsonParseException("expected an object"), st)
  ELSE stringMap_forIn(jb.jbt, jobj, 1, Obj(<<>>), st)

\* for (let k in v) of stringMap.toJson, from the i-th property on
RECURSIVE stringMap_toJsonForIn(_, _, _, _, _)
stringMap_toJsonForIn(jbt, v, i, result, st) ==
  IF i > Len(v.o) THEN Res(Return(result), st)
  ELSE LET c == toJson(jbt, v.o[i][2], st) IN
       IF c.r.ok
       THEN stringMap_toJsonForIn(jbt, v, i + 1, Assign(result, v.o[i][1], c.r.v), c.st)
       ELSE c

stringMap_toJson(jb, v, st) == stringMap_toJsonForIn(jb.jbt, v, 1, Obj(<<>>), st)

\* the branch of object.fromJson for a declared field whose key the Json
\* object does not have, with the default treated as if none was given
object_missing_NoDefault(jbfield, key, st) ==
  Res(JsonParseException("expected an object with field " \o key), st)

\* the same branch, with the field's name pushed on the exception
object_missing_PushField(jbfield, key, st) ==
  IF "defaultv" \in DOMAIN jbfield
  THEN LET d == defaultv(jbfield.defaultv, st) IN Res(Return(d.v), d.st)
  ELSE Res(pushField(JsonParseException("expected an object with field " \o key), key), st)

\* the branch of object.fromJson for a declared field whose key the Json
\* object does not have: the value of the field, or the exception thrown
object_missing(jbfield, key, st) ==
  IF "defaultv" \in DOMAIN jbfield
  THEN LET d == defaultv(jbfield.defaultv, st) IN Res(Return(d.v), d.st)
  ELSE Res(JsonParseException("expected an object with field " \o key), st)

RECURSIVE object_forKeys(_, _, _, _, _)

\* the loop of object.fromJson testing the value with == undefined, which
\* null satisfies too
object_forKeys_LooseTest(jbfields, jvu, i, result, st) ==
  IF i > Len(jbfields) THEN Res(Return(result), st)
  ELSE LET key == jbfields[i][1]
           jbfield == jbfields[i][2]
           jv == Get(jvu, key) IN
       IF jv = Undefined \/ jv = Null
       THEN LET m == object_missing(jbfield, key, st) IN
            IF m.r.ok
            THEN object_forKeys(jbfields, jvu, i + 1, Put(result, key, m.r.v), m.st)
            ELSE m
       ELSE LET c == fromJson(jbfield, jv, st) IN
            IF c.r.ok
            THEN object_forKeys(jbfields, jvu, i + 1, Put(result, key, c.r.v), c.st)
            ELSE Res(CatchPushField(c.r, key), c.st)

\* the loop of object.fromJson going on after a field has failed and
\* throwing the exception of the last field that failed
object_forKeys_LastFailure(jbfields, jvu, i, result, st) ==
  IF i > Len(jbfields) THEN Res(Return(result), st)
  ELSE LET key == jbfields[i][1]
           jbfield == jbfields[i][2]
           jv == Get(jvu, key)
           c == IF jv = Undefined
                THEN object_missing(jbfield, key, st)
                ELSE LET d == fromJson(jbfield, jv, st) IN
                     IF d.r.ok THEN d ELSE Res(CatchPushField(d.r, key), d.st)
           rest == object_forKeys(jbfields, jvu, i + 1,
                                  IF c.r.ok THEN Put(result, key, c.r.v) ELSE result,
                                  c.st)
       IN IF c.r.ok \/ ~rest.r.ok THEN rest ELSE c

\* for (const key of Object.keys(jbfields)) of object.fromJson, from the
\* i-th declared field on
object_forKeys(jbfields, jvu, i, result, st) ==
  IF i > Len(jbfields) THEN Res(Return(result), st)
  ELSE LET key == jbfields[i][1]
           jbfield == jbfields[i][2]
           jv == Get(jvu, key) IN
       IF jv = Undefined
       THEN LET m == object_missing(jbfield, key, st) IN
            IF m.r.ok
            THEN object_forKeys(jbfields, jvu, i + 1, Put(result, key, m.r.v), m.st)
            ELSE m
       ELSE LET c == fromJson(jbfield, jv, st) IN
            IF c.r.ok
            THEN object_forKeys(jbfields, jvu, i + 1, Put(result, key, c.r.v), c.st)
            ELSE Res(CatchPushField(c.r, key), c.st)

object_fromJson(jb, jv, st) ==
  LET jvu == asJsonObject(jv) IN
  IF jvu = Undefined
  THEN Res(JsonParseException("expected an object"), st)
  ELSE object_forKeys(jb.jbfields, jvu, 1, Obj(<<>>), st)

RECURSIVE object_toJsonForKeys(_, _, _, _, _)

\* the loop of object.toJson leaving out a field that encodes undefined
object_toJsonForKeys_OmitUndefined(jbfields, vu, i, result, st) ==
  IF i > Len(jbfields) THEN Res(Return(result), st)
  ELSE LET key == jbfields[i][1]
           c == toJson(jbfields[i][2], Get(vu, key), st) IN
       IF Get(vu, key) = Undefined
       THEN object_toJsonForKeys(jbfields, vu, i + 1, result, st)
       ELSE IF c.r.ok
            THEN object_toJsonForKeys(jbfields, vu, i + 1, Put(result, key, c.r.v), c.st)
            ELSE c

\* for (const key of Object.keys(jbfields)) of object.toJson
object_toJsonForKeys(jbfields, vu, i, result, st) ==
  IF i > Len(jbfields) THEN Res(Return(result), st)
  ELSE LET key == jbfields[i][1]
           c == toJson(jbfields[i][2], Get(vu, key), st) IN
       IF c.r.ok
       THEN object_toJsonForKeys(jbfields, vu, i + 1, Put(result, key, c.r.v), c.st)
       ELSE c

object_toJson(jb, v, st) == object_toJsonForKeys(jb.jbfields, v, 1, Obj(<<>>), st)

orNull_toJson(jb, v, st) ==
  IF v = Null THEN Res(Return(Null), st) ELSE toJson(jb.jbt, v, st)

\* orNull.fromJson without the test for null
orNull_fromJson_NoTest(jb, jv, st) == fromJson(jb.jbt, jv, st)

orNull_fromJson(jb, jv, st) ==
  IF jv = Null THEN Res(Return(Null), st) ELSE fromJson(jb.jbt, jv, st)

\* orUndefined.toJson without the test for undefined
orUndefined_toJson_NoTest(jb, v, st) == toJson(jb.jbt, v, st)

orUndefined_toJson(jb, v, st) ==
  IF v = Undefined THEN Res(Return(Null), st) ELSE toJson(jb.jbt, v, st)

orUndefined_fromJson(jb, jv, st) ==
  IF jv = Null THEN Res(Return(Undefined), st) ELSE fromJson(jb.jbt, jv, st)

mapped_toJson(jb, v, st) == toJson(jb.jbb, fnAB(jb.fnAB, v), st)

\* mapped.fromJson pushing a segment on the exception of fnBA
mapped_fromJson_Push(jb, jv, st) ==
  LET c == fromJson(jb.jbb, jv, st) IN
  IF c.r.ok
  THEN Res(CatchPushField(fnBA(jb.fnBA, c.r.v), jb.fnBA),
           [c.st EXCEPT !.fcalls[jb.fnBA] = @ + 1])
  ELSE c

\* fnBA(jbb.fromJson(json)): the argument is evaluated first, and when it
\* throws fnBA is not invoked
mapped_fromJson(jb, jv, st) ==
  LET c == fromJson(jb.jbb, jv, st) IN
  IF c.r.ok
  THEN Res(fnBA(jb.fnBA, c.r.v), [c.st EXCEPT !.fcalls[jb.fnBA] = @ + 1])
  ELSE c

\* lazy.fromJson invoking the constructor function itself
lazy_fromJson_Fresh(jb, jv, st) ==
  fromJson(Ctor(jb.id), jv, [st EXCEPT !.calls[jb.id] = @ + 1])

lazy_fromJson(jb, jv, st) ==
  LET g == getJb(jb.id, st) IN fromJson(g.jb, jv, g.st)

lazy_toJson(jb, v, st) ==
  LET g == getJb(jb.id, st) IN toJson(g.jb, v, g.st)

pair_toJson(jb, v, st) ==
  LET a == toJson(jb.jba, v.a[1], st) IN
  IF ~a.r.ok THEN a
  ELSE LET b == toJson(jb.jbb, v.a[2], a.st) IN
       IF ~b.r.ok THEN b
       ELSE Res(Return(Arr(<<a.r.v, b.r.v>>)), b.st)

pair_fromJson(jb, jv, st) ==
  LET v == asJsonArray(jv) IN
  IF v # Undefined /\ Len(v.a) = 2
  THEN LET a == fromJson(jb.jba, v.a[1], st) IN
       IF ~a.r.ok THEN Res(CatchPushIndex(a.r, 0), a.st)
       ELSE LET b == fromJson(jb.jbb, v.a[2], a.st) IN
            IF ~b.r.ok THEN Res(CatchPushIndex(b.r, 0), b.st)
            ELSE Res(Return(Arr(<<a.r.v, b.r.v>>)), b.st)
  ELSE Res(JsonParseException("expected a an array of size 2"), st)

\* a value of a union: { kind, value }
UnionValue(kind, value) == Obj(<< <<"kind", Str(kind)>>, <<"value", value>> >>)

RECURSIVE union_toJsonFor(_, _, _, _)

\* union.toJson emitting the kind and the payload under two keys
union_toJsonFor_KindValue(ubs, v, i, st) ==
  IF i > Len(ubs)
  THEN Res(Error("BUG: invalid kind passed to union toJson"), st)
  ELSE IF Get(v, "kind") = Str(ubs[i].kind)
       THEN LET c == toJson(ubs[i].value, Get(v, "value"), st) IN
            IF c.r.ok
            THEN Res(Return(Obj(<< <<"kind", Str(ubs[i].kind)>>, <<"value", c.r.v>> >>)), c.st)
            ELSE c
       ELSE union_toJsonFor(ubs, v, i + 1, st)

\* union.toJson throwing a JsonParseException when no branch has the kind
union_toJsonFor_ParseException(ubs, v, i, st) ==
  IF i > Len(ubs)
  THEN Res(JsonParseException("BUG: invalid kind passed to union toJson"), st)
  ELSE IF Get(v, "kind") = Str(ubs[i].kind)
       THEN LET c == toJson(ubs[i].value, Get(v, "value"), st) IN
            IF c.r.ok
            THEN Res(Return(Obj(<< <<ubs[i].kind, c.r.v>> >>)), c.st)
            ELSE c
       ELSE union_toJsonFor(ubs, v, i + 1, st)

\* for (const ub of ubs) of union.toJson, from the i-th branch on
union_toJsonFor(ubs, v, i, st) ==
  IF i > Len(ubs)
  THEN Res(Error("BUG: invalid kind passed to union toJson"), st)
  ELSE IF Get(v, "kind") = Str(ubs[i].kind)
       THEN LET c == toJson(ubs[i].value, Get(v, "value"), st) IN
            IF c.r.ok
            THEN Res(Return(Obj(<< <<ubs[i].kind, c.r.v>> >>)), c.st)
            ELSE c
       ELSE union_toJsonFor(ubs, v, i + 1, st)

union_toJson(jb, v, st) == union_toJsonFor(jb.ubs, v, 1, st)

\* union.fromJson falling through to its last throw when no branch matches
union_invalidKind_FallThrough(kind) ==
  JsonParseException("expected a union value as a single keyed object")

\* the throw of union.fromJson when no branch has the kind
union_invalidKind(kind) == JsonParseException("invalid union kind: " \o kind)

RECURSIVE union_fromJsonFor(_, _, _, _, _)

\* the loop of union.fromJson going on to the next branch when the binding
\* of a branch of the kind fails
union_fromJsonFor_NextBranch(ubs, o, kind, i, st) ==
  IF i > Len(ubs)
  THEN Res(union_invalidKind(kind), st)
  ELSE IF kind = ubs[i].kind
       THEN LET c == fromJson(ubs[i].value, Get(o, kind), st) IN
            IF c.r.ok
            THEN Res(Return(UnionValue(kind, c.r.v)), c.st)
            ELSE union_fromJsonFor(ubs, o, kind, i + 1, c.st)
       ELSE union_fromJsonFor(ubs, o, kind, i + 1, st)

\* for (const ub of ubs) of union.fromJson, from the i-th branch on
union_fromJsonFor(ubs, o, kind, i, st) ==
  IF i > Len(ubs)
  THEN Res(union_invalidKind(kind), st)
  ELSE IF kind = ubs[i].kind
       THEN LET c == fromJson(ubs[i].value, Get(o, kind), st) IN
            IF c.r.ok
            THEN Res(Return(UnionValue(kind, c.r.v)), c.st)
            ELSE Res(CatchPushField(c.r, kind), c.st)
       ELSE union_fromJsonFor(ubs, o, kind, i + 1, st)

\* union.fromJson taking the first key of an object of several keys
union_fromJson_FirstKey(jb, jv, st) ==
  LET o == asJsonObject(jv) IN
  IF o # Undefined /\ Len(Keys(o)) >= 1
  THEN union_fromJsonFor(jb.ubs, o, Keys(o)[1], 1, st)
  ELSE Res(JsonParseException("expected a union value as a single keyed object"), st)

union_fromJson(jb, jv, st) ==
  LET o == asJsonObject(jv) IN
  IF o # Undefined /\ Len(Keys(o)) = 1
  THEN union_fromJsonFor(jb.ubs, o, Keys(o)[1], 1, st)
  ELSE Res(JsonParseException("expected a union value as a single keyed object"), st)

\* jb.fromJson(jv): the call goes to the closure of the combinator that
\* built jb
fromJson(jb, jv, st) ==
  CASE jb.b = "identity" -> Res(identity_fromJson(jb, jv), st)
    [] jb.b = "array" -> array_fromJson(jb, jv, st)
    [] jb.b = "stringMap" -> stringMap_fromJson(jb, jv, st)
    [] jb.b = "object" -> object_fromJson(jb, jv, st)
    [] jb.b = "orNull" -> orNull_fromJson(jb, jv, st)
    [] jb.b = "orUndefined" -> orUndefined_fromJson(jb, jv, st)
    [] jb.b = "mapped" -> mapped_fromJson(jb, jv, st)
    [] jb.b = "lazy" -> lazy_fromJson(jb, jv, st)
    [] jb.b = "pair" -> pair_fromJson(jb, jv, st)
    [] jb.b = "union" -> union_fromJson(jb, jv, st)

\* jb.toJson(v)
toJson(jb, v, st) ==
  CASE jb.b = "identity" -> Res(identity_toJson(jb, v), st)
    [] jb.b = "array" -> array_toJson(jb, v, st)
    [] jb.b = "stringMap" -> stringMap_toJson(jb, v, st)
    [] jb.b = "object" -> object_toJson(jb, v, st)
    [] jb.b = "orNull" -> orNull_toJson(jb, v, st)
    [] jb.b = "orUndefined" -> orUndefined_toJson(jb, v, st)
    [] jb.b = "mapped" -> mapped_toJson(jb, v, st)
    [] jb.b = "lazy" -> lazy_toJson(jb, v, st)
    [] jb.b = "pair" -> pair_toJson(jb, v, st)
    [] jb.b = "union" -> union_toJson(jb, v, st)

\* ------------------------------------------------------------------------
\* The inputs of the calls
\* ------------------------------------------------------------------------

\* most calls made on one binding in one behaviour
MaxCalls == 3

SeqsUpTo(S, n) == UNION {[1..k -> S] : k \in 0..n}

\* the Json values a position at nesting level lvl is filled with: scalars
\* of every kind at the top, fewer further down
AtomsAt(lvl) ==
  IF lvl = 0
  THEN {Str("a"), Str("42"), Num(1), Num(2), Bool(TRUE), Null, Arr(<<>>), Obj(<<>>)}
  ELSE IF lvl = 1 THEN {Str("a"), Str("42"), Num(1), Num(2), Null}
  ELSE IF lvl = 2 THEN {Str("a"), Str("42"), Num(1), Num(2)}
  ELSE {Str("a"), Num(1)}

LenAt(lvl) == IF lvl <= 1 THEN MaxLen ELSE 1

RECURSIVE Docs(_, _)

\* the property lists that give each declared field from the i-th on a
\* document of its binding, or leave it out
RECURSIVE FieldDocs(_, _, _)
FieldDocs(jbfields, i, lvl) ==
  IF i > Len(jbfields) THEN {<<>>}
  ELSE LET rest == FieldDocs(jbfields, i + 1, lvl) IN
       rest \cup {<< <<jbfields[i][1], d>> >> \o r :
                    d \in Docs(jbfields[i][2], lvl + 1), r \in rest}

\* Json documents for a binding: the documents of its wire form, with
\* documents of the wrong kind at every position
Docs(jb, lvl) ==
  CASE jb.b = "identity" -> AtomsAt(lvl)
    [] jb.b = "array" ->
         AtomsAt(lvl) \cup {Arr(s) : s \in SeqsUpTo(Docs(jb.jbt, lvl + 1), LenAt(lvl))}
    [] jb.b = "stringMap" ->
         AtomsAt(lvl)
           \cup {Obj(<< <<"x", d>> >>) : d \in Docs(jb.jbt, lvl + 1)}
           \cup {Obj(<< <<"x", d>>, <<"y", e>> >>) :
                   d \in Docs(jb.jbt, lvl + 1), e \in Docs(jb.jbt, lvl + 1)}
           \cup {Obj(<< <<"__proto__", d>> >>) :
                   d \in {e \in Docs(jb.jbt, lvl + 1) : e.t \in {"string", "number"}}}
    [] jb.b = "object" ->
         AtomsAt(lvl)
           \cup {Obj(o) : o \in FieldDocs(jb.jbfields, 1, lvl)}
           \cup {Obj(<< <<"x", Num(1)>> >>)}
    [] jb.b = "orNull" -> {Null} \cup Docs(jb.jbt, lvl)
    [] jb.b = "orUndefined" -> {Null} \cup Docs(jb.jbt, lvl)
    [] jb.b = "mapped" -> Docs(jb.jbb, lvl)
    [] jb.b = "lazy" -> AtomsAt(lvl)
    [] jb.b = "pair" ->
         (IF lvl = 0 THEN AtomsAt(lvl) ELSE {Null, Arr(<<>>)})
           \cup {Arr(<<d, e>>) : d \in Docs(jb.jba, lvl + 1), e \in Docs(jb.jbb, lvl + 1)}
           \cup {Arr(<<d>>) : d \in Docs(jb.jba, 3)}
           \cup {Arr(<<d, d, d>>) : d \in Docs(jb.jba, 3)}
    [] jb.b = "union" ->
         AtomsAt(lvl)
           \cup UNION {{Obj(<< <<jb.ubs[i].kind, d>> >>) : d \in Docs(jb.ubs[i].value, lvl + 1)} :
                         i \in 1..Len(jb.ubs)}
           \cup {Obj(<< <<"xxxx", Null>> >>),
                 Obj(<< <<jb.ubs[1].kind, Null>>, <<"xxxx", Null>> >>)}
           \cup {Obj(<< <<jb.ubs[i].kind, Null>>, <<jb.ubs[k].kind, Null>> >>) :
                   i \in {1}, k \in {n \in 2..Len(jb.ubs) : jb.ubs[n].kind # jb.ubs[1].kind}}

\* Category documents nested at most n deep below their root: the first
\* subcategory may be nested, the others have no subcategories
RECURSIVE CategoryDocs(_)
CategoryDocs(n) ==
  LET leaf == Obj(<< <<"name", Str("a")>>, <<"subcategories", Arr(<<>>)>> >>) IN
  {Num(1), leaf} \cup
  (IF n = 0 THEN {}
   ELSE {Obj(<< <<"name", Str("a")>>, <<"subcategories", Arr(<<d>> \o rest)>> >>) :
           d \in CategoryDocs(n - 1),
           rest \in SeqsUpTo({Num(1), leaf}, MaxLen - 1)})

\* strings given to bigint: the empty string, signed decimal literals, a
\* literal between white space, hexadecimal literals with and without a
\* sign, and a literal with a fraction
BigIntDocs ==
  {Str(""), Str("-7"), Str("+7"), Str(" 7 "), Str("0x10"), Str("-0x10"),
   Str("1.5")}

\* the bindings under test
Bindings ==
  {string, number, boolean, nullv, json, date, bigint,
   JB_USER, JB_JOB, JB_JOB_FN, JB_JOB_NULLABLE, JB_PERSON, JB_USER_ROLES, JB_USER_OR_JOB, JB_NAMED_ARRAY, JB_USER_SMAP,
   JB_NUMBER_SMAP, JB_BIGINT_ARRAY, JB_REPEATED_KIND,
   JB_CHECKED_ARRAY, JB_CHECKED_SMAP, JB_CHECKED_OBJECT, JB_CHECKED_PAIR, JB_CHECKED_UNION,
   JB_PAIR, JB_MAP, JB_SET, orNull(number), orUndefined(number), orUndefined(nullv),
   jbCategory(0)}

\* the documents the first call on a binding is made with
Inputs ==
  [jb \in Bindings |->
     IF jb = jbCategory(0) THEN CategoryDocs(MaxNest)
     ELSE IF jb = bigint THEN Docs(jb, 0) \cup BigIntDocs
     ELSE Docs(jb, 0)]

\* the documents a later call on a binding is made with
MoreInputs ==
  [jb \in Bindings |->
     IF jb = jbCategory(0) THEN CategoryDocs(1) ELSE Docs(jb, 3)]

\* ------------------------------------------------------------------------
\* The state machine: calls of toJson and fromJson on one binding
\* ------------------------------------------------------------------------

VARIABLES
  binding,  \* the binding the calls are made on
  store,    \* the caches of the lazy instances, and their constructors' counts
  calls,    \* the number of calls made so far
  last      \* the last call: its operation, argument and outcome

vars == <<binding, store, calls, last>>

\* the number of constructor invocations recorded in a store
RECURSIVE SumCalls(_, _)
SumCalls(st, id) ==
  IF id \notin LazyIds THEN 0 ELSE st.calls[id] + SumCalls(st, id + 1)

\* the record of a call: ctor is the number of constructor functions of
\* lazy it invoked, conv the number of invocations of each fnBA, dflt the
\* number of invocations of the functions made by withDefault and of each
\* function given to withDefaultFn
Call(op, arg, c) ==
  [op |-> op, arg |-> arg, out |-> c.r,
   ctor |-> SumCalls(c.st, 0) - SumCalls(store, 0),
   conv |-> c.st.fcalls,
   dflt |-> [const |-> c.st.vcalls, fn |-> c.st.dcalls]]

\* the store a call leaves for the next call: the counts of the call that
\* has returned are not kept
After(st) ==
  [st EXCEPT !.fcalls = NoConversions,
             !.vcalls = 0,
             !.dcalls = [fn \in DefaultFns |-> 0]]

Init ==
  /\ binding \in Bindings
  /\ store = InitStore
  /\ calls = 0
  /\ last = [op |-> "none"]

\* binding.fromJson(jv)
CallFromJson ==
  /\ calls < MaxCalls
  /\ \E jv \in (IF calls = 0 THEN Inputs[binding] ELSE MoreInputs[binding]) :
       LET c == fromJson(binding, jv, store) IN
       /\ last' = Call("fromJson", jv, c)
       /\ store' = After(c.st)
  /\ calls' = calls + 1
  /\ UNCHANGED binding

\* the values toJson is called with, given a value v of the binding's type:
\* v itself; for an object, v with a property that is no declared field;
\* for a union, v with a kind that no branch has
ToJsonArgs(jb, v) ==
  IF jb.b = "object" THEN {v, Put(v, "extra", Num(1))}
  ELSE IF jb.b = "union" THEN {v, Put(v, "kind", Str("xxxx"))}
  ELSE {v}

\* binding.toJson(v), for a value v that binding.fromJson returned
CallToJson ==
  /\ calls < MaxCalls
  /\ last.op = "fromJson" /\ last.out.ok
  /\ \E v \in ToJsonArgs(binding, last.out.v) :
       LET c == toJson(binding, v, store) IN
       /\ last' = Call("toJson", v, c)
       /\ store' = After(c.st)
  /\ calls' = calls + 1
  /\ UNCHANGED binding

\* roundTrip(jb, v) of the test suite: jb.fromJson(jb.toJson(v))
roundTrip(jb, v, st) ==
  LET j == toJson(jb, v, st) IN
  IF j.r.ok THEN fromJson(jb, j.r.v, j.st) ELSE j

CallRoundTrip ==
  /\ calls < MaxCalls
  /\ last.op = "fromJson" /\ last.out.ok
  /\ LET c == roundTrip(binding, last.out.v, store) IN
     /\ last' = Call("roundTrip", last.out.v, c)
     /\ store' = After(c.st)
  /\ calls' = calls + 1
  /\ UNCHANGED binding

Next == CallFromJson \/ CallToJson \/ CallRoundTrip

Spec == Init /\ [][Next]_vars

\* ------------------------------------------------------------------------
\* C1
\* ------------------------------------------------------------------------

IsObjectDecode ==
  last.op = "fromJson" /\ binding.b = "object" /\ last.arg.t = "object"

FieldKey(i) == binding.jbfields[i][1]

FieldPresent(i) == HasKey(last.arg, FieldKey(i))

FieldHasDefault(i) == "defaultv" \in DOMAIN binding.jbfields[i][2]

\* the value the default of the i-th declared field was declared with
FieldDefault(i) ==
  LET d == binding.jbfields[i][2].defaultv IN
  IF d.k = "const" THEN d.defv ELSE DefaultFn(d.fn)

\* what the binding of the i-th declared field makes of the value under
\* its key
FieldDecode(i) ==
  fromJson(binding.jbfields[i][2], Get(last.arg, FieldKey(i)), InitStore).r

\* the i-th declared field cannot be filled from the Json object
FieldFails(i) ==
  IF FieldPresent(i) THEN ~FieldDecode(i).ok ELSE ~FieldHasDefault(i)

\* C2: when the Json object lacks the key of a declared field that has a
\* default (withDefault or withDefaultFn), fromJson succeeds (as far as the other fields allow) and the
\* result holds the default value under that field
DefaultFillsMissingField ==
  IsObjectDecode =>
    \A i \in 1..Len(binding.jbfields) :
      (FieldHasDefault(i) /\ ~FieldPresent(i)) =>
        /\ last.out.ok <=>
             \A k \in 1..Len(binding.jbfields) : k # i => ~FieldFails(k)
        /\ last.out.ok =>
             Get(last.out.v, FieldKey(i)) = FieldDefault(i)

\* JB_JOB.fromJson({title: "a"}) returned {title: "a", level: 1}
DefaultFillsMissingFieldWitness ==
  /\ last.op = "fromJson"
  /\ binding = JB_JOB
  /\ last.arg = Obj(<< <<"title", Str("a")>> >>)
  /\ last.out = Return(Obj(<< <<"title", Str("a")>>, <<"level", Num(1)>> >>))

\* C3: when the Json object lacks the key of a declared field that has no
\* default, fromJson fails; the failure of the first such field (no earlier
\* field failing) is a JsonParseException with the cause 'expected an object
\* with field <name>' and an empty path, so that its message ends in ' at $'
MissingFieldFails ==
  IsObjectDecode =>
    \A i \in 1..Len(binding.jbfields) :
      (~FieldHasDefault(i) /\ ~FieldPresent(i)) =>
        /\ ~last.out.ok
        /\ (\A k \in 1..(i - 1) : ~FieldFails(k)) =>
             /\ isJsonParseException(last.out)
             /\ last.out.text = "expected an object with field " \o FieldKey(i)
             /\ last.out.context = <<>>
             /\ message(last.out) =
                  "expected an object with field " \o FieldKey(i) \o " at $"

\* JB_PERSON.fromJson({name: "a"}) failed for the field birthday
MissingFieldFailsWitness ==
  /\ last.op = "fromJson"
  /\ binding = JB_PERSON
  /\ last.arg = Obj(<< <<"name", Str("a")>> >>)
  /\ ~last.out.ok
  /\ message(last.out) = "expected an object with field birthday at $"

\* C4: when the key of a declared field is present and the field's binding
\* fails to decode its value, which is to say throws a JsonParseException
\* (no earlier field failing), fromJson fails with the
\* cause of the field's binding unchanged and the field's name appended to
\* the path as one segment
FieldFailureGetsFieldName ==
  IsObjectDecode =>
    \A i \in 1..Len(binding.jbfields) :
      (/\ FieldPresent(i)
       /\ isJsonParseException(FieldDecode(i))
       /\ \A k \in 1..(i - 1) : ~FieldFails(k)) =>
        /\ isJsonParseException(last.out)
        /\ last.out.text = FieldDecode(i).text
        /\ last.out.context = Append(FieldDecode(i).context, FieldKey(i))
        /\ FieldDecode(i).context = <<>> =>
             message(last.out) = FieldDecode(i).text \o " at $." \o FieldKey(i)

\* JB_PERSON.fromJson({name: "a", birthday: null}) failed at $.birthday
FieldFailureGetsFieldNameWitness ==
  /\ last.op = "fromJson"
  /\ binding = JB_PERSON
  /\ last.arg = Obj(<< <<"name", Str("a")>>, <<"birthday", Null>> >>)
  /\ ~last.out.ok
  /\ message(last.out) = "expected a number at $.birthday"

\* ------------------------------------------------------------------------
\* C5, C6: union.fromJson
\* ------------------------------------------------------------------------

\* the last call is fromJson of a union binding on an object of one key
IsUnionDecode ==
  /\ last.op = "fromJson"
  /\ binding.b = "union"
  /\ last.arg.t = "object"
  /\ Len(last.arg.o) = 1

UnionKey == last.arg.o[1][1]

\* the branches whose kind is the key of the Json object
Matching == {i \in 1..Len(binding.ubs) : binding.ubs[i].kind = UnionKey}

\* C5: on a Json object whose one key is the kind of no branch, fromJson
\* fails with the cause 'invalid union kind: <key>' and an empty path
InvalidUnionKind ==
  (IsUnionDecode /\ Matching = {}) =>
    /\ isJsonParseException(last.out)
    /\ last.out.text = "invalid union kind: " \o UnionKey
    /\ last.out.context = <<>>
    /\ message(last.out) = "invalid union kind: " \o UnionKey \o " at $"

\* JB_USER_OR_JOB.fromJson({xxxx: null})
InvalidUnionKindWitness ==
  /\ last.op = "fromJson"
  /\ binding = JB_USER_OR_JOB
  /\ last.arg = Obj(<< <<"xxxx", Null>> >>)
  /\ ~last.out.ok
  /\ message(last.out) = "invalid union kind: xxxx at $"

\* the path a context is rendered as, outermost segment first: the root
\* marker, then the segments from the last pushed to the first pushed
RECURSIVE SegmentsOutermostFirst(_)
SegmentsOutermostFirst(context) ==
  IF Len(context) = 0 THEN ""
  ELSE "." \o context[Len(context)]
           \o SegmentsOutermostFirst(SubSeq(context, 1, Len(context) - 1))

\* what the binding of the first matching branch makes of the payload
BranchDecode ==
  LET i == CHOOSE m \in Matching : \A n \in Matching : m <= n
  IN fromJson(binding.ubs[i].value, last.arg.o[1][2], InitStore).r

\* C6: when the binding of the matching branch fails on the payload with a
\* JsonParseException, the
\* failure keeps the cause and the path of the branch's binding and gets the
\* tag appended as one segment, so that the tag is rendered before the inner
\* segments
BranchFailureGetsTag ==
  (IsUnionDecode /\ Matching # {} /\ isJsonParseException(BranchDecode)) =>
    /\ isJsonParseException(last.out)
    /\ last.out.text = BranchDecode.text
    /\ last.out.context = Append(BranchDecode.context, UnionKey)
    /\ message(last.out) =
         BranchDecode.text \o " at $." \o UnionKey
           \o SegmentsOutermostFirst(BranchDecode.context)

\* JB_USER_OR_JOB.fromJson({job: {title: "a", level: "42"}})
BranchFailureGetsTagWitness ==
  /\ last.op = "fromJson"
  /\ binding = JB_USER_OR_JOB
  /\ last.arg = Obj(<< <<"job", Obj(<< <<"title", Str("a")>>, <<"level", Str("42")>> >>)>> >>)
  /\ ~last.out.ok
  /\ message(last.out) = "expected a number at $.job.level"

\* ------------------------------------------------------------------------
\* C7: array.fromJson
\* ------------------------------------------------------------------------

\* the last call is fromJson of an array binding on a Json array
IsArrayDecode ==
  last.op = "fromJson" /\ binding.b = "array" /\ last.arg.t = "array"

\* what the element binding makes of the element at index i - 1
ElementDecode(i) == fromJson(binding.jbt, last.arg.a[i], InitStore).r

FailingElements == {i \in 1..Len(last.arg.a) : ~ElementDecode(i).ok}

\* C7: the elements are decoded by position from index 0; when elements
\* fail, the failure raised is that of the lowest failing index i, with the
\* segment '[i]' appended to the element's own path when it is a
\* JsonParseException (another exception has no path)
ArrayFailsAtLowestIndex ==
  IsArrayDecode =>
    IF FailingElements = {}
    THEN last.out =
           Return(Arr([i \in 1..Len(last.arg.a) |-> ElementDecode(i).v]))
    ELSE LET i == CHOOSE m \in FailingElements : \A n \in FailingElements : m <= n
         IN IF isJsonParseException(ElementDecode(i))
            THEN /\ isJsonParseException(last.out)
                 /\ last.out.text = ElementDecode(i).text
                 /\ last.out.context =
                      Append(ElementDecode(i).context, "[" \o ToString(i - 1) \o "]")
            ELSE last.out = ElementDecode(i)

\* array(object({name: string()})).fromJson([{x: 1}])
ArrayFailsAtLowestIndexWitness ==
  /\ last.op = "fromJson"
  /\ binding = JB_NAMED_ARRAY
  /\ last.arg = Arr(<< Obj(<< <<"x", Num(1)>> >>) >>)
  /\ ~last.out.ok
  /\ message(last.out) = "expected an object with field name at $.[0]"

\* ------------------------------------------------------------------------
\* C8, C9: lazy
\* ------------------------------------------------------------------------

\* the number of categories in an instance of Category
RECURSIVE Nodes(_)
RECURSIVE NodesOfAll(_, _)
NodesOfAll(a, i) == IF i > Len(a) THEN 0 ELSE Nodes(a[i]) + NodesOfAll(a, i + 1)

Nodes(v) == 1 + NodesOfAll(Get(v, "subcategories").a, 1)

\* C8: building the Category binding invokes no constructor function of
\* lazy; toJson and fromJson on a nested instance return, invoke the
\* constructor functions fewer times than the instance has categories, and
\* the instance goes through roundTrip unchanged
RecursiveBindingIsBounded ==
  binding = jbCategory(0) =>
    /\ calls = 0 =>
         \A id \in LazyIds : store.calls[id] = 0 /\ store.jb[id] = Undefined
    /\ last.op \in {"toJson", "roundTrip"} =>
         last.out.ok /\ last.ctor < Nodes(last.arg)
    /\ (last.op = "fromJson" /\ last.out.ok) => last.ctor < Nodes(last.out.v)
    /\ last.op = "roundTrip" => last.out = Return(last.arg)

\* a Category with a subcategory that has a subcategory went through
\* roundTrip, each of the two lazy instances used having been built once
RecursiveBindingIsBoundedWitness ==
  /\ binding = jbCategory(0)
  /\ last.op = "roundTrip"
  /\ last.out.ok
  /\ Len(Get(last.arg, "subcategories").a) >= 1
  /\ Len(Get(Get(last.arg, "subcategories").a[1], "subcategories").a) >= 1
  /\ store.calls[0] = 1
  /\ store.calls[1] = 1

\* C9: the constructor function of a lazy instance is not invoked before
\* the first call, is invoked at most once over all calls, and once the
\* delegate is cached every later call uses that delegate
LazyConstructsOnce ==
  /\ [](\A id \in LazyIds :
          /\ store.calls[id] <= 1
          /\ calls = 0 => store.calls[id] = 0
          /\ store.jb[id] = Undefined <=> store.calls[id] = 0
          /\ store.jb[id] # Undefined => store.jb[id] = Ctor(id))
  /\ [][\A id \in LazyIds :
          store.jb[id] # Undefined =>
            /\ store'.jb[id] = store.jb[id]
            /\ store'.calls[id] = store.calls[id]]_vars

\* a later fromJson decoded subcategories through the lazy instance 0
\* without invoking its constructor function again
LazyConstructsOnceWitness ==
  /\ binding = jbCategory(0)
  /\ calls >= 2
  /\ last.op = "fromJson"
  /\ last.out.ok
  /\ Len(Get(last.arg, "subcategories").a) >= 1
  /\ last.ctor = 0
  /\ store.calls[0] = 1

\* ------------------------------------------------------------------------
\* C10: the message of a JsonParseException
\* ------------------------------------------------------------------------

\* C10: the message is '<cause> at <path>', the path being '$' followed by
\* the pushed segments, last pushed first, joined by '.'; a field segment is
\* the bare name, an index segment is '[i]'; without segments the path is '$'
MessageIsCauseAtPath ==
  (last.op # "none" /\ isJsonParseException(last.out)) =>
    /\ message(last.out) =
         last.out.text \o " at $" \o SegmentsOutermostFirst(last.out.context)
    /\ last.out.context = <<>> => message(last.out) = last.out.text \o " at $"
    /\ (/\ IsArrayDecode
        /\ binding = JB_NAMED_ARRAY
        /\ \E i \in 1..Len(last.arg.a) :
             /\ last.arg.a[i].t = "object"
             /\ Get(last.arg.a[i], "name").t \in {"number", "null"}
             /\ \A k \in 1..(i - 1) : k \notin FailingElements) =>
         \E i \in 1..Len(last.arg.a) :
           message(last.out) =
             "expected a string at $.[" \o ToString(i - 1) \o "].name"

\* array(object({name: string()})).fromJson([{name: "a"}, {name: 1}])
MessageIsCauseAtPathWitness ==
  /\ last.op = "fromJson"
  /\ binding = JB_NAMED_ARRAY
  /\ last.arg = Arr(<< Obj(<< <<"name", Str("a")>> >>), Obj(<< <<"name", Num(1)>> >>) >>)
  /\ ~last.out.ok
  /\ message(last.out) = "expected a string at $.[1].name"

\* ------------------------------------------------------------------------
\* C11, C12: pair.fromJson
\* ------------------------------------------------------------------------

\* the last call is fromJson of a pair binding
IsPairDecode == last.op = "fromJson" /\ binding.b = "pair"

\* the Json value is an array of exactly 2 elements
IsArrayOfTwo(jv) == jv.t = "array" /\ Len(jv.a) = 2

\* C11: on a Json value that is not an array of exactly 2 elements (not an
\* array, or an array of another length) pair.fromJson fails with a
\* JsonParseException whose cause is exactly 'expected an array of size 2'
\* and whose path is empty
PairRejectsOtherSizes ==
  (IsPairDecode /\ ~IsArrayOfTwo(last.arg)) =>
    /\ isJsonParseException(last.out)
    /\ last.out.text = "expected an array of size 2"
    /\ last.out.context = <<>>

\* pair(string(), date()).fromJson(["a"]) has failed, with the cause as the
\* code spells it
PairRejectsOtherSizesWitness ==
  /\ IsPairDecode
  /\ binding = JB_PAIR
  /\ last.arg = Arr(<< Str("a") >>)
  /\ isJsonParseException(last.out)
  /\ message(last.out) = "expected a an array of size 2 at $"

\* what the binding of the element at index i makes of that element
PairElementDecode(jb, jv, i) ==
  fromJson(IF i = 0 THEN jb.jba ELSE jb.jbb, jv.a[i + 1], InitStore).r

\* the pair binding jb fails on the array jv of two elements because of its
\* element at index i
PairFailsAt(jb, jv, i) ==
  /\ ~PairElementDecode(jb, jv, i).ok
  /\ \A k \in 0..(i - 1) : PairElementDecode(jb, jv, k).ok

\* the entries of the Json array that the pair binding of a map fails on
BadEntries ==
  {i \in 1..Len(last.arg.a) : ~fromJson(binding.jbb.jbt, last.arg.a[i], InitStore).r.ok}

\* C12: on an array of 2 elements pair.fromJson appends the index of the
\* element that failed to the path of that element's failure: '[0]' for
\* element 0, '[1]' for element 1; so map(k, v) reports a bad value of the
\* entry i at '$.[i].[1]'
PairFailureGetsIndex ==
  /\ (IsPairDecode /\ IsArrayOfTwo(last.arg)) =>
       \A i \in 0..1 :
         PairFailsAt(binding, last.arg, i) =>
           /\ isJsonParseException(last.out)
           /\ last.out.text = PairElementDecode(binding, last.arg, i).text
           /\ last.out.context =
                Append(PairElementDecode(binding, last.arg, i).context,
                       "[" \o ToString(i) \o "]")
  /\ (/\ last.op = "fromJson"
      /\ binding = JB_MAP
      /\ last.arg.t = "array"
      /\ BadEntries # {}) =>
       LET i == CHOOSE m \in BadEntries : \A n \in BadEntries : m <= n
           jbp == binding.jbb.jbt
       IN (IsArrayOfTwo(last.arg.a[i]) /\ PairFailsAt(jbp, last.arg.a[i], 1)) =>
            message(last.out) =
              PairElementDecode(jbp, last.arg.a[i], 1).text
                \o " at $.[" \o ToString(i - 1) \o "].[1]"

\* map(string(), date()).fromJson([["a", "a"]]) has failed on the value of
\* the entry 0, and the path names the index 0 of the pair
PairFailureGetsIndexWitness ==
  /\ last.op = "fromJson"
  /\ binding = JB_MAP
  /\ last.arg = Arr(<< Arr(<< Str("a"), Str("a") >>) >>)
  /\ isJsonParseException(last.out)
  /\ message(last.out) = "expected a number at $.[0].[0]"

\* ------------------------------------------------------------------------
\* C13: bigint.fromJson
\* ------------------------------------------------------------------------

\* the strings that are an optionally signed run of one or more decimal
\* digits, as far as the model reads them
IntegerStrings ==
  {ToString(n) : n \in 0..MaxBigInt}
    \cup {"-" \o ToString(n) : n \in 0..MaxBigInt}
    \cup {"+" \o ToString(n) : n \in 0..MaxBigInt}

\* C13: bigint().fromJson fails on a Json string that is not a valid
\* integer with the cause 'expected a string containing a valid integer',
\* and on a Json value that is not a string with the cause 'expected a
\* string'; in both cases the path is empty
BigintRejectsNonInteger ==
  (last.op = "fromJson" /\ binding = bigint) =>
    /\ last.arg.t # "string" =>
         /\ isJsonParseException(last.out)
         /\ last.out.text = "expected a string"
         /\ last.out.context = <<>>
    /\ (last.arg.t = "string" /\ last.arg.s \notin IntegerStrings) =>
         /\ isJsonParseException(last.out)
         /\ last.out.text = "expected a string containing a valid integer"
         /\ last.out.context = <<>>

\* bigint().fromJson("a") has failed, with the cause as the code words it
BigintRejectsNonIntegerWitness ==
  /\ last.op = "fromJson"
  /\ binding = bigint
  /\ last.arg = Str("a")
  /\ isJsonParseException(last.out)
  /\ message(last.out) = "expected a string containing a bigint at $"

\* ------------------------------------------------------------------------
\* C14, C15: union
\* ------------------------------------------------------------------------

\* C14: on a Json value that is not an object, or an object with no key or
\* with more than one key, union.fromJson fails with the cause 'expected a
\* union value as a single keyed object' and an empty path, whether or not
\* a key is the kind of a branch
UnionRejectsNotSingleKeyed ==
  (/\ last.op = "fromJson"
   /\ binding.b = "union"
   /\ ~(last.arg.t = "object" /\ Len(last.arg.o) = 1)) =>
    /\ isJsonParseException(last.out)
    /\ last.out.text = "expected a union value as a single keyed object"
    /\ last.out.context = <<>>
    /\ message(last.out) = "expected a union value as a single keyed object at $"

\* JB_USER_OR_JOB.fromJson({user: null, job: null}): both keys are kinds
UnionRejectsNotSingleKeyedWitness ==
  /\ last.op = "fromJson"
  /\ binding = JB_USER_OR_JOB
  /\ last.arg.t = "object"
  /\ Len(last.arg.o) = 2
  /\ \A k \in 1..2 : \E i \in 1..Len(binding.ubs) : binding.ubs[i].kind = last.arg.o[k][1]
  /\ isJsonParseException(last.out)
  /\ message(last.out) = "expected a union value as a single keyed object at $"

\* the last call is toJson of a union binding on a value {kind, value}
IsUnionEncode ==
  /\ last.op = "toJson"
  /\ binding.b = "union"
  /\ last.arg.t = "object"
  /\ Keys(last.arg) = <<"kind", "value">>

\* the branches whose kind is the kind of the value
MatchingKind ==
  {i \in 1..Len(binding.ubs) : Str(binding.ubs[i].kind) = Get(last.arg, "kind")}

\* what the binding of the first branch of that kind makes of the payload
BranchEncode ==
  LET i == CHOOSE m \in MatchingKind : \A n \in MatchingKind : m <= n
  IN toJson(binding.ubs[i].value, Get(last.arg, "value"), InitStore).r

\* C15: union.toJson of a value {kind, value} whose kind is the kind of a
\* branch returns a Json object of exactly one key, the kind, whose value is
\* what the toJson of the branch's binding returns for the payload
UnionEncodesSingleKey ==
  (IsUnionEncode /\ MatchingKind # {} /\ BranchEncode.ok) =>
    /\ last.out.ok
    /\ last.out.v.t = "object"
    /\ Keys(last.out.v) = << Get(last.arg, "kind").s >>
    /\ Get(last.out.v, Get(last.arg, "kind").s) = BranchEncode.v

\* JB_USER_OR_JOB.toJson({kind: 'job', value: {title: "a", level: 1}})
\* returned {job: {title: "a", level: 1}}
UnionEncodesSingleKeyWitness ==
  /\ IsUnionEncode
  /\ binding = JB_USER_OR_JOB
  /\ last.arg = UnionValue("job", Obj(<< <<"title", Str("a")>>, <<"level", Num(1)>> >>))
  /\ last.out = Return(Obj(<< <<"job", Obj(<< <<"title", Str("a")>>, <<"level", Num(1)>> >>)>> >>))

\* ------------------------------------------------------------------------
\* C16: orNull, orUndefined
\* ------------------------------------------------------------------------

IsOrBinding(jb) == jb.b \in {"orNull", "orUndefined"}

\* the value that stands for the absent value
Sentinel(jb) == IF jb.b = "orNull" THEN Null ELSE Undefined

\* the binding made by the other of the two combinators over the same inner
\* binding
OtherOr(jb) == IF jb.b = "orNull" THEN orUndefined(jb.jbt) ELSE orNull(jb.jbt)

\* C16: orNull(inner) and orUndefined(inner): toJson gives Json null for
\* the value that stands for the absent value (null, undefined) and
\* inner.toJson(v) for any other v; fromJson gives that value for Json null,
\* whatever inner makes of null, and the outcome of inner.fromJson for any
\* other Json value, a failure keeping its path; the two combinators read
\* and write the same Json
OrNullOrUndefinedWireFormat ==
  IsOrBinding(binding) =>
    /\ last.op = "toJson" =>
         last.out = IF last.arg = Sentinel(binding)
                    THEN Return(Null)
                    ELSE toJson(binding.jbt, last.arg, InitStore).r
    /\ last.op = "fromJson" =>
         /\ last.out = IF last.arg = Null
                       THEN Return(Sentinel(binding))
                       ELSE fromJson(binding.jbt, last.arg, InitStore).r
         /\ LET other == fromJson(OtherOr(binding), last.arg, InitStore).r IN
            IF last.out.ok
            THEN /\ other.ok
                 /\ other.v = Sentinel(OtherOr(binding)) <=> last.out.v = Sentinel(binding)
                 /\ other.v # Sentinel(OtherOr(binding)) => other.v = last.out.v
                 /\ toJson(OtherOr(binding), other.v, InitStore).r
                      = toJson(binding, last.out.v, InitStore).r
            ELSE other = last.out

\* orUndefined(nullv()).toJson(undefined) returned null, the undefined
\* being what fromJson(null) returned
OrNullOrUndefinedWireFormatWitness ==
  /\ binding = orUndefined(nullv)
  /\ last.op = "toJson"
  /\ last.arg = Undefined
  /\ last.out = Return(Null)

\* ------------------------------------------------------------------------
\* C17: a default and an explicit null
\* ------------------------------------------------------------------------

\* C17: the default of a declared field is used only when the Json object
\* lacks the field's key.  When the key is present, also with the value
\* null, the value goes to the field's binding: the result holds what the
\* binding returned, and when the binding fails (as it does on null unless
\* it accepts null) fromJson fails with the binding's cause and the field's
\* name appended to the path
DefaultOnlyWhenAbsent ==
  IsObjectDecode =>
    /\ \A i \in 1..Len(binding.jbfields) :
         (/\ FieldHasDefault(i)
          /\ FieldPresent(i)
          /\ \A k \in 1..(i - 1) : ~FieldFails(k)) =>
           IF FieldDecode(i).ok
           THEN last.out.ok => Get(last.out.v, FieldKey(i)) = FieldDecode(i).v
           ELSE /\ isJsonParseException(last.out)
                /\ last.out.text = FieldDecode(i).text
                /\ last.out.context = Append(FieldDecode(i).context, FieldKey(i))
    /\ (binding = JB_JOB /\ Get(last.arg, "title").t = "string"
          /\ Get(last.arg, "level") = Null) =>
         /\ isJsonParseException(last.out)
         /\ message(last.out) = "expected a number at $.level"
    /\ (binding = JB_JOB_NULLABLE /\ Get(last.arg, "title").t = "string"
          /\ Get(last.arg, "level") = Null) =>
         /\ last.out.ok
         /\ Get(last.out.v, "level") = Null

\* JB_JOB.fromJson({title: "a", level: null}) has failed at $.level
DefaultOnlyWhenAbsentWitness ==
  /\ last.op = "fromJson"
  /\ binding = JB_JOB
  /\ last.arg = Obj(<< <<"title", Str("a")>>, <<"level", Null>> >>)
  /\ isJsonParseException(last.out)
  /\ message(last.out) = "expected a number at $.level"

\* ------------------------------------------------------------------------
\* C18: object.toJson
\* ------------------------------------------------------------------------

\* the last call is toJson of an object binding
IsObjectEncode ==
  last.op = "toJson" /\ binding.b = "object" /\ last.arg.t = "object"

\* what the binding of the i-th declared field makes of the value's field
FieldEncode(i) ==
  toJson(binding.jbfields[i][2], Get(last.arg, FieldKey(i)), InitStore).r

\* C18: object.toJson(v) returns a Json object whose keys are exactly the
\* names of the declared fields, each with what the field's binding's
\* toJson returns for v's field, whatever other properties v has and
\* whether or not the field has a default; a field that holds undefined
\* under orUndefined is present with the value null
ObjectEncodesDeclaredFields ==
  IsObjectEncode =>
    /\ last.out.ok
    /\ last.out.v.t = "object"
    /\ Len(Keys(last.out.v)) = Len(binding.jbfields)
    /\ {Keys(last.out.v)[k] : k \in 1..Len(Keys(last.out.v))}
         = {FieldKey(i) : i \in 1..Len(binding.jbfields)}
    /\ \A i \in 1..Len(binding.jbfields) :
         /\ Get(last.out.v, FieldKey(i)) = FieldEncode(i).v
         /\ (binding.jbfields[i][2].b = "orUndefined"
               /\ Get(last.arg, FieldKey(i)) = Undefined) =>
              /\ HasKey(last.out.v, FieldKey(i))
              /\ Get(last.out.v, FieldKey(i)) = Null

\* JB_USER.toJson of a user whose phoneNumber is undefined and who has a
\* property that is no declared field
ObjectEncodesDeclaredFieldsWitness ==
  /\ IsObjectEncode
  /\ binding = JB_USER
  /\ last.arg = Obj(<< <<"name", Str("a")>>, <<"birthday", DateV(1)>>,
                       <<"phoneNumber", Undefined>>, <<"extra", Num(1)>> >>)
  /\ last.out = Return(Obj(<< <<"name", Str("a")>>, <<"birthday", Num(1)>>,
                              <<"phoneNumber", Null>> >>))

\* ------------------------------------------------------------------------
\* C19: stringMap
\* ------------------------------------------------------------------------

\* the last call is fromJson of a stringMap binding on a Json object
IsStringMapDecode ==
  last.op = "fromJson" /\ binding.b = "stringMap" /\ last.arg.t = "object"

\* the set of the keys of an object
KeySet(o) == {o.o[i][1] : i \in 1..Len(o.o)}

\* what the value binding makes of the value of the i-th key
ValueDecode(i) == fromJson(binding.jbt, last.arg.o[i][2], InitStore).r

FailingKeys == {i \in 1..Len(last.arg.o) : ~ValueDecode(i).ok}

\* C19: stringMap(v).fromJson on a Json object decodes the value of every
\* key with v and returns a mapping whose set of keys is exactly that of the
\* input; a value that fails gets its key appended to the path as one
\* segment (stringMap(object(..)).fromJson({x: 1}) fails with 'expected an
\* object at $.x'); toJson maps every entry through v.toJson and keeps the
\* set of keys
StringMapKeepsKeys ==
  /\ IsStringMapDecode =>
       IF FailingKeys = {}
       THEN /\ last.out.ok
            /\ KeySet(last.out.v) = KeySet(last.arg)
            /\ \A i \in 1..Len(last.arg.o) :
                 Get(last.out.v, last.arg.o[i][1]) = ValueDecode(i).v
       ELSE LET i == CHOOSE m \in FailingKeys : \A n \in FailingKeys : m <= n
            IN /\ isJsonParseException(last.out)
               /\ last.out.text = ValueDecode(i).text
               /\ last.out.context = Append(ValueDecode(i).context, last.arg.o[i][1])
  /\ (IsStringMapDecode /\ binding = JB_USER_SMAP
        /\ last.arg = Obj(<< <<"x", Num(1)>> >>)) =>
       message(last.out) = "expected an object at $.x"
  /\ (last.op = "toJson" /\ binding.b = "stringMap") =>
       /\ last.out.ok
       /\ KeySet(last.out.v) = KeySet(last.arg)
       /\ \A i \in 1..Len(last.arg.o) :
            Get(last.out.v, last.arg.o[i][1])
              = toJson(binding.jbt, last.arg.o[i][2], InitStore).r.v

\* stringMap(number()).fromJson of the object that
\* JSON.parse('{"__proto__": 1}') gives has returned an object without keys
StringMapKeepsKeysWitness ==
  /\ IsStringMapDecode
  /\ binding = JB_NUMBER_SMAP
  /\ last.arg = Obj(<< <<"__proto__", Num(1)>> >>)
  /\ last.out = Return(Obj(<<>>))

\* ------------------------------------------------------------------------
\* C20: map, set
\* ------------------------------------------------------------------------

\* the first and the last position at which x occurs in the sequence s
FirstAt(s, x) == CHOOSE i \in 1..Len(s) : s[i] = x /\ \A k \in 1..(i - 1) : s[k] # x

LastAt(s, x) == CHOOSE i \in 1..Len(s) : s[i] = x /\ \A k \in (i + 1)..Len(s) : s[k] # x

\* s has the elements of t, each once, in the order of their first
\* occurrence in t
IsDedupOf(s, t) ==
  /\ {s[i] : i \in 1..Len(s)} = {t[i] : i \in 1..Len(t)}
  /\ \A i, k \in 1..Len(s) : i < k => FirstAt(t, s[i]) < FirstAt(t, s[k])

\* the keys of the entries of a Json array of pairs
EntryKeys(jv) == [i \in 1..Len(jv.a) |-> jv.a[i].a[1]]

\* C20: map(k, v) encodes a Map as the Json array of its entries [key,
\* value], in the Map's iteration order, and decodes such an array by
\* inserting the entries in order: every key occurs once, at the place of
\* its first entry, with the value of its last entry; set(t) encodes a Set
\* as the array of its elements in iteration order and decodes an array to
\* its elements without duplicates
MapAndSetKeepOrder ==
  /\ (binding = JB_MAP /\ last.op = "toJson") =>
       /\ last.out.ok
       /\ last.out.v.t = "array"
       /\ Len(last.out.v.a) = Len(last.arg.entries)
       /\ \A i \in 1..Len(last.arg.entries) :
            last.out.v.a[i] =
              Arr(<< last.arg.entries[i][1], Num(last.arg.entries[i][2].time) >>)
  /\ (binding = JB_MAP /\ last.op = "fromJson" /\ last.out.ok) =>
       LET entries == last.out.v.entries
           keys == [i \in 1..Len(entries) |-> entries[i][1]]
       IN /\ last.out.v.t = "Map"
          /\ IsDedupOf(keys, EntryKeys(last.arg))
          /\ \A i \in 1..Len(entries) :
               entries[i][2] =
                 DateV(last.arg.a[LastAt(EntryKeys(last.arg), keys[i])].a[2].n)
  /\ (binding = JB_SET /\ last.op = "toJson") =>
       last.out = Return(Arr(last.arg.values))
  /\ (binding = JB_SET /\ last.op = "fromJson" /\ last.out.ok) =>
       /\ last.out.v.t = "Set"
       /\ IsDedupOf(last.out.v.values, last.arg.a)

\* map(string(), date()).fromJson([["a", 1], ["a", 2]]) returned the Map
\* of the one entry "a" -> Date(2)
MapAndSetKeepOrderWitness ==
  /\ binding = JB_MAP
  /\ last.op = "fromJson"
  /\ last.arg = Arr(<< Arr(<<Str("a"), Num(1)>>), Arr(<<Str("a"), Num(2)>>) >>)
  /\ last.out = Return(MapV(<< <<Str("a"), DateV(2)>> >>))

\* ------------------------------------------------------------------------
\* C21: union.toJson of a value of no branch's kind
\* ------------------------------------------------------------------------

\* C21: union.toJson of a value whose kind is the kind of no branch returns
\* no Json value: it throws an exception that is not a JsonParseException,
\* so that isJsonParseException is false for it and mapJsonException returns
\* it unchanged
UnionEncodeUnknownKindIsFault ==
  (IsUnionEncode /\ MatchingKind = {}) =>
    /\ ~last.out.ok
    /\ ~isJsonParseException(last.out)
    /\ mapJsonException(last.out) = last.out
    /\ last.out = Error("BUG: invalid kind passed to union toJson")

\* JB_USER_OR_JOB.toJson({kind: 'xxxx', value: {title: "a", level: 1}})
UnionEncodeUnknownKindIsFaultWitness ==
  /\ IsUnionEncode
  /\ binding = JB_USER_OR_JOB
  /\ last.arg = UnionValue("xxxx", Obj(<< <<"title", Str("a")>>, <<"level", Num(1)>> >>))
  /\ ~last.out.ok
  /\ last.out.exc = "Error"

\* ------------------------------------------------------------------------
\* C22: a Json value of the wrong kind
\* ------------------------------------------------------------------------

\* the kind of Json value each primitive binding takes, and the cause it
\* fails with on any other
PrimitiveKinds ==
  {[jb |-> string, kind |-> "string", cause |-> "expected a string"],
   [jb |-> number, kind |-> "number", cause |-> "expected a number"],
   [jb |-> boolean, kind |-> "boolean", cause |-> "expected a boolean"],
   [jb |-> nullv, kind |-> "null", cause |-> "expected a null"]}

\* the last call failed with the cause and an empty path
FailsAtRootWith(cause) ==
  /\ isJsonParseException(last.out)
  /\ last.out.text = cause
  /\ last.out.context = <<>>
  /\ message(last.out) = cause \o " at $"

\* C22: a binding given a Json value of the wrong kind fails with the cause
\* of its kind and an empty path: string, number, boolean and nullv with
\* 'expected a string', 'expected a number', 'expected a boolean' and
\* 'expected a null'; array with 'expected an array' on what is no array;
\* object and stringMap with 'expected an object' on what is no object
\* (arrays and null included).  json() returns every Json value unchanged,
\* and toJson of a primitive binding returns its argument
WrongKindFailsAtRoot ==
  /\ last.op = "fromJson" =>
       /\ \A p \in PrimitiveKinds :
            binding = p.jb =>
              IF last.arg.t = p.kind
              THEN last.out = Return(last.arg)
              ELSE FailsAtRootWith(p.cause)
       /\ binding = json => last.out = Return(last.arg)
       /\ (binding.b = "array" /\ last.arg.t # "array") =>
            FailsAtRootWith("expected an array")
       /\ (binding.b \in {"object", "stringMap"} /\ last.arg.t # "object") =>
            FailsAtRootWith("expected an object")
  /\ (last.op = "toJson" /\ binding \in {string, number, boolean, nullv, json}) =>
       last.out = Return(last.arg)

\* boolean().fromJson(null) has failed with 'expected a boolean at $'
WrongKindFailsAtRootWitness ==
  /\ last.op = "fromJson"
  /\ binding = boolean
  /\ last.arg = Null
  /\ isJsonParseException(last.out)
  /\ message(last.out) = "expected a boolean at $"

\* ------------------------------------------------------------------------
\* C23: the path of a failure
\* ------------------------------------------------------------------------

\* the least element of a non-empty set of numbers
Least(S) == CHOOSE m \in S : \A n \in S : m <= n

\* the binding jb fails on the Json value jv
Fails(jb, jv) == ~fromJson(jb, jv, InitStore).r.ok

\* the segments of the route from the binding jb, which fails on jv, to the
\* binding that raises the failure, innermost first: one segment for each
\* array (the index), stringMap (the key), object (the field), pair (the
\* index) and union (the tag) on the route, and none for orNull,
\* orUndefined, mapped and lazy
RECURSIVE Route(_, _)
Route(jb, jv) ==
  CASE jb.b = "identity" -> <<>>
    [] jb.b = "array" ->
         IF jv.t # "array" THEN <<>>
         ELSE LET i == Least({k \in 1..Len(jv.a) : Fails(jb.jbt, jv.a[k])})
              IN Append(Route(jb.jbt, jv.a[i]), "[" \o ToString(i - 1) \o "]")
    [] jb.b = "stringMap" ->
         IF jv.t # "object" THEN <<>>
         ELSE LET i == Least({k \in 1..Len(jv.o) : Fails(jb.jbt, jv.o[k][2])})
              IN Append(Route(jb.jbt, jv.o[i][2]), jv.o[i][1])
    [] jb.b = "object" ->
         IF jv.t # "object" THEN <<>>
         ELSE LET missing(k) == ~HasKey(jv, jb.jbfields[k][1])
                  i == Least({k \in 1..Len(jb.jbfields) :
                                IF missing(k)
                                THEN "defaultv" \notin DOMAIN jb.jbfields[k][2]
                                ELSE Fails(jb.jbfields[k][2], Get(jv, jb.jbfields[k][1]))})
              IN IF missing(i) THEN <<>>
                 ELSE Append(Route(jb.jbfields[i][2], Get(jv, jb.jbfields[i][1])),
                             jb.jbfields[i][1])
    [] jb.b \in {"orNull", "orUndefined"} -> Route(jb.jbt, jv)
    [] jb.b = "mapped" -> IF Fails(jb.jbb, jv) THEN Route(jb.jbb, jv) ELSE <<>>
    [] jb.b = "lazy" -> Route(Ctor(jb.id), jv)
    [] jb.b = "pair" ->
         IF ~IsArrayOfTwo(jv) THEN <<>>
         ELSE IF Fails(jb.jba, jv.a[1])
              THEN Append(Route(jb.jba, jv.a[1]), "[0]")
              ELSE Append(Route(jb.jbb, jv.a[2]), "[1]")
    [] jb.b = "union" ->
         IF jv.t # "object" \/ Len(jv.o) # 1 THEN <<>>
         ELSE LET M == {k \in 1..Len(jb.ubs) : jb.ubs[k].kind = jv.o[1][1]}
              IN IF M = {} THEN <<>>
                 ELSE Append(Route(jb.ubs[Least(M)].value, jv.o[1][2]), jv.o[1][1])

\* C23: when a decode fails, the context of the exception that reaches the
\* caller holds exactly one segment for each structural combinator (object
\* field, array index, stringMap key, pair index, union tag) on the route
\* from the root binding to the binding that failed, innermost first;
\* orNull, orUndefined, mapped and lazy add none
ContextIsRoute ==
  (last.op = "fromJson" /\ isJsonParseException(last.out)) =>
    last.out.context = Route(binding, last.arg)

\* pair(string(), date()).fromJson(["a", "a"]) has failed on the element 1,
\* and its path names the index 0
ContextIsRouteWitness ==
  /\ last.op = "fromJson"
  /\ binding = JB_PAIR
  /\ last.arg = Arr(<< Str("a"), Str("a") >>)
  /\ isJsonParseException(last.out)
  /\ last.out.context = <<"[0]">>
  /\ Route(binding, last.arg) = <<"[1]">>

\* ------------------------------------------------------------------------
\* C24: mapped
\* ------------------------------------------------------------------------

\* what the inner binding of the mapped binding makes of the argument
InnerDecode == fromJson(binding.jbb, last.arg, InitStore).r

\* C24: mapped(inner, toInner, fromInner).fromJson runs inner.fromJson
\* first; when that fails the failure is the outcome and fromInner is not
\* invoked; otherwise fromInner is invoked once on the inner result and its
\* outcome is the outcome, a JsonParseException it throws getting no segment
\* from mapped (within an array it is reported at the index of the mapped
\* element).  toJson(v) is inner.toJson(toInner(v))
MappedDecodesInnerFirst ==
  /\ (binding.b = "mapped" /\ last.op = "fromJson") =>
       IF ~InnerDecode.ok
       THEN /\ last.out = InnerDecode
            /\ last.conv[binding.fnBA] = 0
       ELSE /\ last.out = fnBA(binding.fnBA, InnerDecode.v)
            /\ last.conv[binding.fnBA] = 1
            /\ isJsonParseException(last.out) => last.out.context = <<>>
  /\ (binding.b = "mapped" /\ last.op = "toJson") =>
       last.out = toJson(binding.jbb, fnAB(binding.fnAB, last.arg), InitStore).r
  /\ (binding = JB_BIGINT_ARRAY /\ last.op = "fromJson"
        /\ last.arg = Arr(<< Str("42"), Str("a") >>)) =>
       /\ isJsonParseException(last.out)
       /\ message(last.out) = "expected a string containing a bigint at $.[1]"
       /\ last.conv["BigInt"] = 2

\* bigint().fromJson("a"): string() returned "a" and the conversion, invoked
\* once, threw the exception that reached the caller with an empty path
MappedDecodesInnerFirstWitness ==
  /\ binding = bigint
  /\ last.op = "fromJson"
  /\ last.arg = Str("a")
  /\ InnerDecode = Return(Str("a"))
  /\ isJsonParseException(last.out)
  /\ last.out.context = <<>>
  /\ last.conv["BigInt"] = 1

\* ------------------------------------------------------------------------
\* C25: object.fromJson stops at the first field that fails
\* ------------------------------------------------------------------------

\* the declared fields that cannot be filled from the Json object
FailingFields == {i \in 1..Len(binding.jbfields) : FieldFails(i)}

\* the call of the binding of the i-th declared field on the value under
\* its key, with the counts it leaves
FieldCall(i) ==
  fromJson(binding.jbfields[i][2], Get(last.arg, FieldKey(i)), InitStore)

\* the invocations of the function fn given to mapped that decoding the
\* declared fields up to the n-th makes
RECURSIVE ConversionsUpTo(_, _)
ConversionsUpTo(n, fn) ==
  IF n = 0 THEN 0
  ELSE ConversionsUpTo(n - 1, fn)
         + (IF FieldPresent(n) THEN FieldCall(n).st.fcalls[fn] ELSE 0)

\* the declared fields up to the n-th that take their default, of the kind
\* k ("const" for withDefault, "fn" for withDefaultFn)
DefaultsUpTo(n, k) ==
  {i \in 1..n : /\ ~FieldPresent(i)
                /\ FieldHasDefault(i)
                /\ binding.jbfields[i][2].defaultv.k = k}

\* C25: object.fromJson goes through the declared fields in declaration
\* order and stops at the first that fails: when several fields are missing
\* without default or fail to decode, the exception is that of the first of
\* them (with the field's name as segment when it is a JsonParseException
\* of the field's binding), and no binding and no default supplier of a later field is invoked
ObjectStopsAtFirstFailure ==
  (IsObjectDecode /\ FailingFields # {}) =>
    LET i == Least(FailingFields) IN
    /\ IF ~FieldPresent(i)
       THEN /\ isJsonParseException(last.out)
            /\ last.out.text = "expected an object with field " \o FieldKey(i)
            /\ last.out.context = <<>>
       ELSE IF isJsonParseException(FieldDecode(i))
       THEN /\ isJsonParseException(last.out)
            /\ last.out.text = FieldDecode(i).text
            /\ last.out.context = Append(FieldDecode(i).context, FieldKey(i))
       ELSE last.out = FieldDecode(i)
    /\ \A fn \in ConversionFns : last.conv[fn] = ConversionsUpTo(i, fn)
    /\ last.dflt.const = Cardinality(DefaultsUpTo(i, "const"))
    /\ \A fn \in DefaultFns :
         last.dflt.fn[fn] =
           Cardinality({k \in DefaultsUpTo(i, "fn") :
                          binding.jbfields[k][2].defaultv.fn = fn})

\* JB_PERSON.fromJson({name: 1, birthday: "a"}): both fields fail, the
\* exception is that of name
ObjectStopsAtFirstFailureWitness ==
  /\ IsObjectDecode
  /\ binding = JB_PERSON
  /\ last.arg = Obj(<< <<"name", Num(1)>>, <<"birthday", Str("a")>> >>)
  /\ FailingFields = {1, 2}
  /\ isJsonParseException(last.out)
  /\ message(last.out) = "expected a string at $.name"

\* ------------------------------------------------------------------------
\* C26: a union with a repeated kind
\* ------------------------------------------------------------------------

\* C26: when the branch list of a union has a kind more than once, fromJson
\* and toJson use the first branch of that kind in declaration order: the
\* outcome of fromJson is that of the first branch's binding, also when it
\* fails on a payload that a later branch of the kind accepts, and toJson
\* encodes the payload with the first branch's binding
UnionFirstBranchWins ==
  /\ (IsUnionDecode /\ Cardinality(Matching) >= 2) =>
       /\ IF BranchDecode.ok
          THEN last.out = Return(UnionValue(UnionKey, BranchDecode.v))
          ELSE /\ isJsonParseException(last.out)
               /\ last.out.text = BranchDecode.text
               /\ last.out.context = Append(BranchDecode.context, UnionKey)
       /\ \A fn \in ConversionFns :
            last.conv[fn] =
              fromJson(binding.ubs[Least(Matching)].value, last.arg.o[1][2],
                       InitStore).st.fcalls[fn]
  /\ (IsUnionEncode /\ Cardinality(MatchingKind) >= 2) =>
       last.out = Return(Obj(<< <<Get(last.arg, "kind").s, BranchEncode.v>> >>))
  /\ (binding = JB_REPEATED_KIND /\ last.op = "fromJson"
        /\ last.arg = Obj(<< <<"t", Str("a")>> >>)) =>
       /\ isJsonParseException(last.out)
       /\ message(last.out) = "expected a number at $.t"
  /\ (binding = JB_REPEATED_KIND /\ last.op = "toJson"
        /\ last.arg = UnionValue("t", DateV(1))) =>
       last.out = Return(Obj(<< <<"t", Num(1)>> >>))

\* the union of the branches t: date() and t: string() has failed on
\* {t: "a"}, which the second branch accepts
UnionFirstBranchWinsWitness ==
  /\ binding = JB_REPEATED_KIND
  /\ IsUnionDecode
  /\ last.arg = Obj(<< <<"t", Str("a")>> >>)
  /\ Matching = {1, 2}
  /\ fromJson(binding.ubs[2].value, Str("a"), InitStore).r.ok
  /\ isJsonParseException(last.out)
  /\ message(last.out) = "expected a number at $.t"

\* ------------------------------------------------------------------------
\* C27: exceptions that are no JsonParseException
\* ------------------------------------------------------------------------

\* an exception that is no JsonParseException
IsFault(r) == ~r.ok /\ ~isJsonParseException(r)

\* C27: an exception that is no JsonParseException, thrown below an array,
\* a stringMap, an object, a pair or a union while decoding, reaches the
\* caller as it was thrown: it gets no segment and is not turned into a
\* JsonParseException
FaultPassesThrough ==
  /\ (IsArrayDecode /\ FailingElements # {}
        /\ IsFault(ElementDecode(Least(FailingElements)))) =>
       last.out = ElementDecode(Least(FailingElements))
  /\ (IsStringMapDecode /\ FailingKeys # {}
        /\ IsFault(ValueDecode(Least(FailingKeys)))) =>
       last.out = ValueDecode(Least(FailingKeys))
  /\ (IsObjectDecode /\ FailingFields # {}
        /\ FieldPresent(Least(FailingFields))
        /\ IsFault(FieldDecode(Least(FailingFields)))) =>
       last.out = FieldDecode(Least(FailingFields))
  /\ (IsPairDecode /\ IsArrayOfTwo(last.arg)) =>
       \A i \in 0..1 :
         (PairFailsAt(binding, last.arg, i)
            /\ IsFault(PairElementDecode(binding, last.arg, i))) =>
           last.out = PairElementDecode(binding, last.arg, i)
  /\ (IsUnionDecode /\ Matching # {} /\ IsFault(BranchDecode)) =>
       last.out = BranchDecode
  /\ (last.op = "fromJson" /\ IsFault(last.out)) =>
       /\ last.out = Error("fault")
       /\ mapJsonException(last.out) = last.out

\* the second element of a pair has thrown an Error, and pair.fromJson has
\* thrown it on
FaultPassesThroughWitness ==
  /\ binding = JB_CHECKED_PAIR
  /\ last.op = "fromJson"
  /\ last.arg = Arr(<< Str("42"), Str("a") >>)
  /\ last.out = Error("fault")

\* ------------------------------------------------------------------------
\* C28: no state but the cache of lazy
\* ------------------------------------------------------------------------

\* the last call made on the binding as it is after construction, before
\* any other call
FreshCall ==
  CASE last.op = "fromJson" -> fromJson(binding, last.arg, InitStore)
    [] last.op = "toJson" -> toJson(binding, last.arg, InitStore)
    [] last.op = "roundTrip" -> roundTrip(binding, last.arg, InitStore)

FieldsReached ==
  IF FailingFields = {} THEN Len(binding.jbfields) ELSE Least(FailingFields)

\* C29: in a decode by object.fromJson the default supplier of a field is
\* invoked once when the field's key is absent and the loop gets to the
\* field, and not at all when the key is present or an earlier field has
\* failed; this holds for every decode, whatever calls came before. The
\* field of the result is the value v given to withDefault, or what the
\* call f() of the function given to withDefaultFn returns
DefaultSupplierOncePerAbsentField ==
  IsObjectDecode =>
    /\ last.dflt.const = Cardinality(DefaultsUpTo(FieldsReached, "const"))
    /\ \A fn \in DefaultFns :
         last.dflt.fn[fn] =
           Cardinality({k \in DefaultsUpTo(FieldsReached, "fn") :
                          binding.jbfields[k][2].defaultv.fn = fn})
    /\ last.out.ok =>
         \A i \in 1..Len(binding.jbfields) :
           (~FieldPresent(i) /\ FieldHasDefault(i)) =>
             LET d == binding.jbfields[i][2].defaultv IN
             Get(last.out.v, FieldKey(i)) =
               (IF d.k = "const" THEN d.defv ELSE DefaultFn(d.fn))

\* the third call on JB_JOB_FN is fromJson({title: "a"}): the function
\* given to withDefaultFn is invoked once in it and level is its result
DefaultSupplierOncePerAbsentFieldWitness ==
  /\ IsObjectDecode
  /\ binding = JB_JOB_FN
  /\ calls = 3
  /\ last.arg = Obj(<< <<"title", Str("a")>> >>)
  /\ last.out.ok
  /\ Get(last.out.v, "level") = Num(1)
  /\ last.dflt.fn[0] = 1
  /\ last.dflt.const = 0

\* ------------------------------------------------------------------------
\* C30: the wire form of bigint
\* ------------------------------------------------------------------------

\* the strings of IntegerStrings with the integer each denotes
IntegerOf(s) ==
  CHOOSE i \in (0 - MaxBigInt)..MaxBigInt :
    \/ (i >= 0 /\ s \in {ToString(i), "+" \o ToString(i)})
    \/ (i <= 0 /\ s = "-" \o ToString(0 - i))

\* C30: the wire form of bigint is a Json string of optionally signed
\* decimal digits: toJson(n) is the decimal rendering of n, and fromJson
\* returns the integer a string denotes when the string is an optionally
\* signed run of one or more decimal digits and fails with a
\* JsonParseException on every other string, such as the empty string, a
\* literal between white space and a hexadecimal literal
BigintWireFormIsDecimal ==
  /\ (last.op = "toJson" /\ binding = bigint) =>
       last.out = Return(Str(ToString(last.arg.i)))
  /\ (last.op = "fromJson" /\ binding = bigint /\ last.arg.t = "string") =>
       IF last.arg.s \in IntegerStrings
       THEN last.out = Return(BigIntV(IntegerOf(last.arg.s)))
       ELSE isJsonParseException(last.out)

\* bigint().fromJson("0x10") has returned 16n
BigintWireFormIsDecimalWitness ==
  /\ last.op = "fromJson"
  /\ binding = bigint
  /\ last.arg = Str("0x10")
  /\ last.out = Return(BigIntV(16))

====
